---- MODULE Spec2Model ----
(***************************************************************************)
(* Stripe patterns on triangle meshes (geometry-central):                   *)
(*   - crossesModulo2Pi and extractIsolinesFromStripePattern, the isoline   *)
(*     tracer over the halfedge mesh,                                       *)
(*   - extractPolylinesFromStripePattern, the point/edge soup built from    *)
(*     the traced isolines,                                                 *)
(*   - buildVertexEnergyMatrix, the triplet assembly of the energy matrix.  *)
(*                                                                          *)
(* Numbers.  Stripe values are fixed-point numbers with three decimals     *)
(* (0.1 is 100, 6.2 is 6200) and 2*PI is 6.283 (TwoPi).  A barycentric        *)
(* fraction is kept as the pair <<numerator, denominator>> of the division  *)
(* the code performs.                                                       *)
(***************************************************************************)
EXTENDS Integers, Sequences, FiniteSets, TLC

\* 2 * PI in thousandths
TwoPi == 6283

\* face indices of the inputs range over 0..MaxIndex
MaxIndex == 1

\* corner stripe values of the inputs: an exact multiple of 2*PI (0), a value
\* of the first period (0.1) and a value of the second period (7.0)
StripeVals == {0, 100, 7000}

\* the values handed to crossesModulo2Pi on its own lie within MaxPeriods
\* periods of 0 on either side
MaxPeriods == 1

\* the corner values (0.1, 6.2, 0.1) of the single-triangle scenario
ScenarioValues == <<100, 6200, 100>>

(***************************************************************************)
(* Halfedge meshes.  Halfedges, faces and vertices are numbered from 1.     *)
(* The interior halfedges come first (three per face) and a corner has the  *)
(* number of its halfedge; the exterior halfedges follow and belong to the  *)
(* boundary loop, whose face number is nFaces + 1.                          *)
(*   next      interior halfedge -> next halfedge of its face               *)
(*   twin      halfedge -> opposite halfedge                                *)
(*   face      halfedge -> its face (or boundary loop)                      *)
(*   vertex    halfedge -> its tail vertex                                  *)
(*   halfedge  face -> first halfedge of the face                           *)
(*   edges     edge -> its halfedge (e.halfedge(), always interior)         *)
(*   positions vertex -> embedded position                                  *)
(***************************************************************************)

\* one triangle (1,2,3); all three edges on the boundary
TriMesh ==
  [ name      |-> "tri",
    nFaces    |-> 1,
    nVertices |-> 3,
    next      |-> <<2, 3, 1>>,
    twin      |-> <<4, 5, 6, 1, 2, 3>>,
    face      |-> <<1, 1, 1, 2, 2, 2>>,
    vertex    |-> <<1, 2, 3, 2, 3, 1>>,
    halfedge  |-> <<1>>,
    edges     |-> <<1, 2, 3>>,
    positions |-> << <<0, 0, 0>>, <<6, 0, 0>>, <<0, 6, 0>> >> ]

\* two triangles (1,2,3) and (1,3,4) sharing the edge 1-3
QuadMesh ==
  [ name      |-> "quad",
    nFaces    |-> 2,
    nVertices |-> 4,
    next      |-> <<2, 3, 1, 5, 6, 4>>,
    twin      |-> <<7, 8, 4, 3, 9, 10, 1, 2, 5, 6>>,
    face      |-> <<1, 1, 1, 2, 2, 2, 3, 3, 3, 3>>,
    vertex    |-> <<1, 2, 3, 1, 3, 4, 2, 3, 4, 1>>,
    halfedge  |-> <<1, 4>>,
    edges     |-> <<1, 2, 3, 5, 6>>,
    positions |-> << <<0, 0, 0>>, <<6, 0, 0>>, <<6, 6, 0>>, <<0, 6, 0>> >> ]

\* three triangles (1,2,3), (1,3,4), (1,4,2) around the interior vertex 1
FanMesh ==
  [ name      |-> "fan",
    nFaces    |-> 3,
    nVertices |-> 4,
    next      |-> <<2, 3, 1, 5, 6, 4, 8, 9, 7>>,
    twin      |-> <<9, 10, 4, 3, 11, 7, 6, 12, 1, 2, 5, 8>>,
    face      |-> <<1, 1, 1, 2, 2, 2, 3, 3, 3, 4, 4, 4>>,
    vertex    |-> <<1, 2, 3, 1, 3, 4, 1, 4, 2, 3, 4, 2>>,
    halfedge  |-> <<1, 4, 7>>,
    edges     |-> <<1, 2, 3, 5, 6, 8>>,
    positions |-> << <<0, 0, 0>>, <<6, 0, 6>>, <<0, 6, 6>>, <<-6, -6, 6>> >> ]

\* the fan with a fourth triangle (4,3,5) across its boundary edge 3-4
KiteMesh ==
  [ name      |-> "kite",
    nFaces    |-> 4,
    nVertices |-> 5,
    next      |-> <<2, 3, 1, 5, 6, 4, 8, 9, 7, 11, 12, 10>>,
    twin      |-> <<9, 13, 4, 3, 10, 7, 6, 14, 1, 5, 15, 16, 2, 8, 11, 12>>,
    face      |-> <<1, 1, 1, 2, 2, 2, 3, 3, 3, 4, 4, 4, 5, 5, 5, 5>>,
    vertex    |-> <<1, 2, 3, 1, 3, 4, 1, 4, 2, 4, 3, 5, 3, 2, 5, 4>>,
    halfedge  |-> <<1, 4, 7, 10>>,
    edges     |-> <<1, 2, 3, 5, 6, 8, 11, 12>>,
    positions |-> << <<0, 0, 0>>, <<6, 0, 6>>, <<0, 6, 6>>, <<-6, -6, 6>>,
                     <<-6, 6, 12>> >> ]

Meshes == {TriMesh, QuadMesh, FanMesh, KiteMesh}

VARIABLES
  mesh,            \* geometry.mesh
  stripeValues,    \* CornerData<double>, corner -> value
  stripesIndices,  \* FaceData<int>
  fieldIndices,    \* FaceData<int>
  pc,              \* position in the code
  visited,         \* FaceData<bool> visited
  isolines,        \* std::vector<Isoline> isolines
  fIdx,            \* position of `for (Face f : mesh.faces())`
  iso,             \* Isoline iso
  nbOfPieces,      \* int nbOfPieces
  hIdx,            \* position of `for (Halfedge h : f.adjacentHalfedges())`
  isoPts,          \* the walk's isoPts
  prevFace,        \* Face prevFace
  curFace,         \* Face curFace
  done,            \* bool done
  points,          \* extractPolylines: std::vector<Vector3> points
  edges,           \* extractPolylines: std::vector<std::array<int, 2>> edges
  i,               \* extractPolylines: int i
  start,           \* extractPolylines: int start
  isoIdx,          \* extractPolylines: position of `for (auto isoline : isolines)`
  ptIdx,           \* extractPolylines: position of `for (auto pair : isoline.barycenters)`
  halfedgeCotanWeights, \* geometry.halfedgeCotanWeights, in units of 1e-4
  branchIndices,   \* buildVertexEnergyMatrix: FaceData<int> branchIndices
  eIdx,            \* buildVertexEnergyMatrix: position of `for (Edge e : mesh.edges())`
  crossesSheet,    \* buildVertexEnergyMatrix: bool crossesSheet
  triplets,        \* buildVertexEnergyMatrix: std::vector<Eigen::Triplet<double>>
  vertexEnergyMatrix, \* buildVertexEnergyMatrix: SparseMatrix<double>
  argVal1,         \* crossesModulo2Pi: double val1
  argVal2,         \* crossesModulo2Pi: double val2
  crossing         \* crossesModulo2Pi: the result and `bary`

inputVars == <<mesh, stripeValues, stripesIndices, fieldIndices>>
walkVars  == <<isoPts, prevFace, curFace, done>>
seedVars  == <<iso, nbOfPieces, hIdx>>
polyVars  == <<points, edges, i, start, isoIdx, ptIdx>>
energyVars == <<halfedgeCotanWeights, branchIndices, eIdx, crossesSheet, triplets, vertexEnergyMatrix>>
crossVars  == <<argVal1, argVal2, crossing>>
extractVars == <<stripeValues, stripesIndices, fieldIndices, visited, isolines,
                 fIdx, iso, nbOfPieces, hIdx, isoPts, prevFace, curFace, done,
                 points, edges, i, start, isoIdx, ptIdx>>
vars == <<mesh, pc, extractVars, energyVars, crossVars>>

(***************************************************************************)
(* Mesh navigation                                                          *)
(***************************************************************************)
Faces    == 1..mesh.nFaces
Vertices == 1..mesh.nVertices
Corners  == 1..(3 * mesh.nFaces)

next(h)   == mesh.next[h]
twin(h)   == mesh.twin[h]
face(h)   == mesh.face[h]
vertex(h) == mesh.vertex[h]
corner(h) == h
tailVertex(h) == vertex(h)
tipVertex(h)  == vertex(next(h))
isBoundaryLoop(F) == F > mesh.nFaces
adjacentHalfedges(F) ==
  LET h == mesh.halfedge[F] IN <<h, next(h), next(next(h))>>

(***************************************************************************)
(* crossesModulo2Pi                                                         *)
(***************************************************************************)
\* faulty variant of ceil: rounds down instead of up
ceilRoundsDown(val) == val \div TwoPi

\* std::ceil(val / (2 * PI))
ceil(val) == -((-val) \div TwoPi)

\* the value of `bary` is written only when a crossing is reported
NoBary == <<0, 0>>

\* faulty variant of crossesModulo2Pi: the case val1 > val2 is left out
crossesOnlyAscending(val1, val2) ==
  IF val1 < val2 /\ val2 > TwoPi * ceil(val1)
    THEN [crosses |-> TRUE, bary |-> <<TwoPi * ceil(val1) - val2, val1 - val2>>]
    ELSE [crosses |-> FALSE, bary |-> NoBary]

crossesModulo2Pi(val1, val2) ==
  IF val1 = val2 THEN [crosses |-> FALSE, bary |-> NoBary]
  ELSE IF val1 < val2
    THEN LET isoval == TwoPi * ceil(val1) IN
         IF val2 > isoval
           THEN [crosses |-> TRUE, bary |-> <<isoval - val2, val1 - val2>>]
           ELSE [crosses |-> FALSE, bary |-> NoBary]
    ELSE LET isoval == TwoPi * ceil(val2) IN
         IF val1 > isoval
           THEN [crosses |-> TRUE, bary |-> <<isoval - val2, val1 - val2>>]
           ELSE [crosses |-> FALSE, bary |-> NoBary]

\* crossesModulo2Pi(stripeValues[h.corner()], stripeValues[h.next().corner()], bary)
halfedgeCrossing(h) ==
  crossesModulo2Pi(stripeValues[corner(h)], stripeValues[corner(next(h))])

\* stripesIndices[F] == 0 && fieldIndices[F] == 0
regular(F) == stripesIndices[F] = 0 /\ fieldIndices[F] = 0

(***************************************************************************)
(* Inputs                                                                   *)
(***************************************************************************)
\* the meshes whose inputs include corner values that disagree at a vertex
OffCornerMeshes == {TriMesh, QuadMesh, FanMesh}

\* corner values: one value per vertex; on the meshes of OffCornerMeshes also
\* with one corner whose value differs from the value of its vertex; and the
\* values of the single-triangle scenario
CornerInputs(m) ==
  { [c \in 1..(3 * m.nFaces) |->
        IF c = off[1] THEN off[2] ELSE vv[m.vertex[c]]] :
      vv \in [1..m.nVertices -> StripeVals],
      off \in (IF m \in OffCornerMeshes THEN 0..(3 * m.nFaces) ELSE {0})
                \X StripeVals }
  \cup (IF m = TriMesh THEN {ScenarioValues} ELSE {})

\* face indices <<stripesIndices, fieldIndices>>: at most one singular face
IndexInputs(m) ==
  { ix \in [1..m.nFaces -> 0..MaxIndex] \X [1..m.nFaces -> 0..MaxIndex] :
      Cardinality({F \in 1..m.nFaces : ix[1][F] # 0 \/ ix[2][F] # 0}) <= 1 }

EmptyIsoline == [barycenters |-> <<>>, open |-> TRUE]

\* the variables of buildVertexEnergyMatrix while it does not run
energyIdle ==
  /\ halfedgeCotanWeights = <<>>
  /\ branchIndices = <<>>
  /\ eIdx = 0
  /\ crossesSheet = FALSE
  /\ triplets = <<>>
  /\ vertexEnergyMatrix = <<>>

\* the variables of a lone call of crossesModulo2Pi while there is none
crossIdle ==
  /\ argVal1 = 0
  /\ argVal2 = 0
  /\ crossing = <<>>

Init ==
  /\ energyIdle
  /\ crossIdle
  /\ mesh \in Meshes
  /\ stripeValues \in CornerInputs(mesh)
  /\ \E ix \in IndexInputs(mesh) :
       /\ stripesIndices = ix[1]
       /\ fieldIndices = ix[2]
  /\ pc = "faces"
  /\ visited = [F \in Faces |-> FALSE]
  /\ isolines = <<>>
  /\ fIdx = 1
  /\ iso = EmptyIsoline
  /\ nbOfPieces = 0
  /\ hIdx = 0
  /\ isoPts = <<>>
  /\ prevFace = 0
  /\ curFace = 0
  /\ done = FALSE
  /\ points = <<>>
  /\ edges = <<>>
  /\ i = 0
  /\ start = 0
  /\ isoIdx = 0
  /\ ptIdx = 0

(***************************************************************************)
(* extractIsolinesFromStripePattern                                         *)
(***************************************************************************)
\* the face f of the outer loop
f == fIdx

\* the halfedge h of the loop over f's halfedges
h == adjacentHalfedges(f)[hIdx]

\* line 289: a visited or singular face is skipped
SkipFace ==
  /\ pc = "faces"
  /\ fIdx <= mesh.nFaces
  /\ (visited[f] \/ stripesIndices[f] # 0 \/ fieldIndices[f] # 0)
  /\ fIdx' = fIdx + 1
  /\ UNCHANGED <<energyVars, crossVars, inputVars, pc, visited, isolines, seedVars, walkVars, polyVars>>

\* lines 290-294: an unvisited regular face becomes the seed face
SeedFace ==
  /\ pc = "faces"
  /\ fIdx <= mesh.nFaces
  /\ ~(visited[f] \/ stripesIndices[f] # 0 \/ fieldIndices[f] # 0)
  /\ visited' = [visited EXCEPT ![f] = TRUE]
  /\ iso' = EmptyIsoline
  /\ nbOfPieces' = 0
  /\ hIdx' = 1
  /\ pc' = "halfedges"
  /\ UNCHANGED <<energyVars, crossVars, inputVars, isolines, fIdx, walkVars, polyVars>>

\* line 297: no crossing on h
NoCrossing ==
  /\ pc = "halfedges"
  /\ hIdx <= 3
  /\ ~halfedgeCrossing(h).crosses
  /\ hIdx' = hIdx + 1
  /\ UNCHANGED <<energyVars, crossVars, inputVars, pc, visited, isolines, fIdx, iso, nbOfPieces, walkVars, polyVars>>

\* lines 297-304: a crossing on h starts a walk across h
StartWalk ==
  /\ pc = "halfedges"
  /\ hIdx <= 3
  /\ halfedgeCrossing(h).crosses
  /\ nbOfPieces' = nbOfPieces + 1
  /\ isoPts' = << <<h, halfedgeCrossing(h).bary>> >>
  /\ prevFace' = f
  /\ curFace' = face(twin(h))
  /\ done' = FALSE
  /\ pc' = "walk"
  /\ UNCHANGED <<energyVars, crossVars, inputVars, visited, isolines, fIdx, iso, hIdx, polyVars>>

\* line 305: the condition of the while loop
walkContinues ==
  /\ ~isBoundaryLoop(curFace)
  /\ ~done
  /\ stripesIndices[curFace] = 0
  /\ fieldIndices[curFace] = 0

\* lines 308-313: the first halfedge of cf that is not shared with pf and has
\* a crossing; 0 when there is none
exitHalfedge(cf, pf) ==
  LET hs == adjacentHalfedges(cf)
      hit(k) == face(twin(hs[k])) # pf /\ halfedgeCrossing(hs[k]).crosses
  IN IF hit(1) THEN hs[1] ELSE IF hit(2) THEN hs[2] ELSE IF hit(3) THEN hs[3] ELSE 0

\* faulty variant of blocked: a visited face never stops the walk
neverBlocked(oppFace) == FALSE

\* faulty variant of blocked: only the seed face stops the walk
blockedBySeedOnly(oppFace) == ~isBoundaryLoop(oppFace) /\ oppFace = f

\* line 314: the face across the crossing is an interior face already visited
blocked(oppFace) == ~isBoundaryLoop(oppFace) /\ visited'[oppFace]

\* lines 306-329, no crossing among the examined halfedges: done stays true
WalkNoExit ==
  /\ pc = "walk"
  /\ walkContinues
  /\ visited' = [visited EXCEPT ![curFace] = TRUE]
  /\ exitHalfedge(curFace, prevFace) = 0
  /\ done' = TRUE
  /\ UNCHANGED <<energyVars, crossVars, inputVars, pc, isolines, fIdx, seedVars, isoPts, prevFace, curFace, polyVars>>

\* lines 306-316: the crossing leads into a visited face; a loop is closed
\* when that face is the seed face
WalkBlocked ==
  /\ pc = "walk"
  /\ walkContinues
  /\ visited' = [visited EXCEPT ![curFace] = TRUE]
  /\ LET he == exitHalfedge(curFace, prevFace) IN
       /\ he # 0
       /\ blocked(face(twin(he)))
       /\ done' = TRUE
       /\ iso' = IF face(twin(he)) = f THEN [iso EXCEPT !.open = FALSE] ELSE iso
  /\ UNCHANGED <<energyVars, crossVars, inputVars, pc, isolines, fIdx, nbOfPieces, hIdx, isoPts, prevFace, curFace, polyVars>>

\* lines 306-325: the crossing leads into the boundary loop, a singular face
\* (the walk is done) or an unvisited regular face (the walk goes on)
WalkAdvance ==
  /\ pc = "walk"
  /\ walkContinues
  /\ visited' = [visited EXCEPT ![curFace] = TRUE]
  /\ LET he == exitHalfedge(curFace, prevFace)
         oppFace == face(twin(he))
     IN
       /\ he # 0
       /\ ~blocked(oppFace)
       /\ done' = (isBoundaryLoop(oppFace) \/ stripesIndices[oppFace] # 0
                                        \/ fieldIndices[oppFace] # 0)
       /\ isoPts' = Append(isoPts, <<he, halfedgeCrossing(he).bary>>)
       /\ prevFace' = curFace
       /\ curFace' = oppFace
  /\ UNCHANGED <<energyVars, crossVars, inputVars, pc, isolines, fIdx, seedVars, polyVars>>

Reverse(s) == [k \in 1..Len(s) |-> s[Len(s) + 1 - k]]

\* lines 331-334
stitch(barycenters, pts) ==
  IF Len(barycenters) = 0 THEN Reverse(pts) ELSE barycenters \o pts

\* lines 305, 331-335: the walk is over and is added to the isoline
EndWalk ==
  /\ pc = "walk"
  /\ ~walkContinues
  /\ iso' = [iso EXCEPT !.barycenters = stitch(iso.barycenters, isoPts)]
  /\ hIdx' = hIdx + 1
  /\ isoPts' = <<>>
  /\ prevFace' = 0
  /\ curFace' = 0
  /\ done' = FALSE
  /\ pc' = "halfedges"
  /\ UNCHANGED <<energyVars, crossVars, inputVars, visited, isolines, fIdx, nbOfPieces, polyVars>>

\* lines 337-338
pushed == IF nbOfPieces > 0 THEN Append(isolines, iso) ELSE isolines

\* faulty variant of branches: two walks already count as branching
branchesAtTwo == nbOfPieces >= 2

\* line 340
branches == nbOfPieces > 2

\* lines 337-342: the seed face is finished
EndSeed ==
  /\ pc = "halfedges"
  /\ hIdx > 3
  /\ ~branches
  /\ isolines' = pushed
  /\ fIdx' = fIdx + 1
  /\ iso' = EmptyIsoline
  /\ nbOfPieces' = 0
  /\ hIdx' = 0
  /\ pc' = "faces"
  /\ UNCHANGED <<energyVars, crossVars, inputVars, visited, walkVars, polyVars>>

\* lines 340-341: throw std::runtime_error; no list is returned
Throw ==
  /\ pc = "halfedges"
  /\ hIdx > 3
  /\ branches
  /\ isolines' = pushed
  /\ pc' = "error"
  /\ UNCHANGED <<energyVars, crossVars, inputVars, visited, fIdx, seedVars, walkVars, polyVars>>

\* line 343 (and line 349: the list reaches extractPolylinesFromStripePattern)
Return ==
  /\ pc = "faces"
  /\ fIdx > mesh.nFaces
  /\ pc' = "polylines"
  /\ isoIdx' = 1
  /\ UNCHANGED <<energyVars, crossVars, inputVars, visited, isolines, fIdx, seedVars, walkVars,
                 points, edges, i, start, ptIdx>>

(***************************************************************************)
(* extractPolylinesFromStripePattern                                        *)
(***************************************************************************)
isoline == isolines[isoIdx]

\* lines 361-362: bary * tail + (1 - bary) * tip, numerators over bary's
\* denominator
interpolate(he, bary) ==
  LET tail == mesh.positions[tailVertex(he)]
      tip  == mesh.positions[tipVertex(he)]
  IN [num |-> [k \in 1..3 |-> bary[1] * tail[k] + (bary[2] - bary[1]) * tip[k]],
      den |-> bary[2]]

\* lines 356-357
PolyBegin ==
  /\ pc = "polylines"
  /\ isoIdx <= Len(isolines)
  /\ start' = i
  /\ ptIdx' = 1
  /\ pc' = "polyPoints"
  /\ UNCHANGED <<energyVars, crossVars, inputVars, visited, isolines, fIdx, seedVars, walkVars,
                 points, edges, i, isoIdx>>

\* faulty variant of notLast: the last point of an isoline gets an edge as well
notLastOffByOne == i < start + Len(isoline.barycenters)

\* line 364
notLast == i < start + Len(isoline.barycenters) - 1

\* lines 358-369
PolyPoint ==
  /\ pc = "polyPoints"
  /\ ptIdx <= Len(isoline.barycenters)
  /\ LET pair == isoline.barycenters[ptIdx] IN
       points' = Append(points, interpolate(pair[1], pair[2]))
  /\ edges' = IF notLast THEN Append(edges, <<i, i + 1>>) ELSE edges
  /\ i' = i + 1
  /\ ptIdx' = ptIdx + 1
  /\ UNCHANGED <<energyVars, crossVars, inputVars, pc, visited, isolines, fIdx, seedVars, walkVars,
                 start, isoIdx>>

\* lines 370-374
closing == IF ~isoline.open THEN Append(edges, <<i - 1, start>>) ELSE edges

PolyEnd ==
  /\ pc = "polyPoints"
  /\ ptIdx > Len(isoline.barycenters)
  /\ edges' = closing
  /\ isoIdx' = isoIdx + 1
  /\ ptIdx' = 0
  /\ pc' = "polylines"
  /\ UNCHANGED <<energyVars, crossVars, inputVars, visited, isolines, fIdx, seedVars, walkVars,
                 points, i, start>>

\* line 377
PolyReturn ==
  /\ pc = "polylines"
  /\ isoIdx > Len(isolines)
  /\ pc' = "done"
  /\ UNCHANGED <<energyVars, crossVars, inputVars, visited, isolines, fIdx, seedVars, walkVars, polyVars>>

Next ==
  \/ SkipFace
  \/ SeedFace
  \/ NoCrossing
  \/ StartWalk
  \/ WalkNoExit
  \/ WalkBlocked
  \/ WalkAdvance
  \/ EndWalk
  \/ EndSeed
  \/ Throw
  \/ Return
  \/ PolyBegin
  \/ PolyPoint
  \/ PolyEnd
  \/ PolyReturn

Spec == Init /\ [][Next]_vars

\* the code runs to its return or its throw: nothing else stops it
FairSpec == Spec /\ WF_vars(Next)

(***************************************************************************)
(* buildVertexEnergyMatrix                                                  *)
(*                                                                          *)
(* Matrix entries and cotan weights are counted in units of 1e-4.  The      *)
(* 1-form omegaIJ of computeOmega is a number of quarter turns, for which   *)
(* Vector2::fromAngle has integer components; it and the flag crossesSheets *)
(* depend on the geometry and the direction field and are inputs of each    *)
(* edge, like the cotan weights the geometry supplies.                      *)
(***************************************************************************)
\* the meshes of the energy matrix
EnergyMeshes == {TriMesh, QuadMesh}

\* omegaIJ as returned by computeOmega, in quarter turns
OmegaTurns == {0, 1}

\* the cotan weights of the halfedges of m, in units of 1e-4: 0.5 everywhere,
\* or 0.5 and -0.25 in turns
CotanInputs(m) ==
  { [he \in DOMAIN m.twin |-> 5000],
    [he \in DOMAIN m.twin |-> IF he % 2 = 1 THEN 5000 ELSE -2500] }

\* Vector2::fromAngle(omega)
fromAngle(omega) ==
  CASE omega = 0 -> <<1, 0>>
    [] omega = 1 -> <<0, 1>>
    [] omega = 2 -> <<-1, 0>>
    [] omega = 3 -> <<0, -1>>

\* geometry.vertexIndices
vertexIndices(v) == v - 1

\* e.isBoundary(), he the halfedge of e
isBoundary(he) == isBoundaryLoop(face(twin(he)))

\* lines 67-73: the cotan weight of the edge of halfedge he
cotanWeight(he) ==
  (IF branchIndices[face(he)] = 0 THEN halfedgeCotanWeights[he] ELSE 0)
  + (IF ~isBoundary(he) /\ branchIndices[face(twin(he))] = 0
       THEN halfedgeCotanWeights[twin(he)] ELSE 0)

\* faulty variant of edgeTriplets: the entry (j, i + 1) gets the sign of the
\* conjugate block
edgeTripletsSignSlip(vi, vj, w, rij, sheet) ==
  LET conj == IF sheet THEN <<-rij[1], -rij[2]>> ELSE rij IN
    << <<vi, vi, w>>, <<vi + 1, vi + 1, w>>,
       <<vj, vj, w>>, <<vj + 1, vj + 1, w>>,
       <<vi, vj, -rij[1]>>, <<vi + 1, vj, rij[2]>>,
       <<vj, vi, -rij[1]>>, <<vj, vi + 1, -rij[2]>>,
       <<vi, vj + 1, -conj[2]>>, <<vi + 1, vj + 1, -conj[1]>>,
       <<vj + 1, vi, -conj[2]>>, <<vj + 1, vi + 1, -conj[1]>> >>

\* lines 79-102: the twelve triplets <<row, column, value>> of an edge; rij
\* is w * Vector2::fromAngle(omegaIJ) and `rij *= -1` applies when the edge
\* crosses sheets
edgeTriplets(vi, vj, w, rij, sheet) ==
  LET conj == IF sheet THEN <<-rij[1], -rij[2]>> ELSE rij IN
    << <<vi, vi, w>>, <<vi + 1, vi + 1, w>>,
       <<vj, vj, w>>, <<vj + 1, vj + 1, w>>,
       <<vi, vj, -rij[1]>>, <<vi + 1, vj, rij[2]>>,
       <<vj, vi, -rij[1]>>, <<vj, vi + 1, rij[2]>>,
       <<vi, vj + 1, -conj[2]>>, <<vi + 1, vj + 1, -conj[1]>>,
       <<vj + 1, vi, -conj[2]>>, <<vj + 1, vi + 1, -conj[1]>> >>

RECURSIVE sumAt(_, _, _, _)
\* the sum of the values of the first n triplets that lie at (row, col)
sumAt(ts, n, row, col) ==
  IF n = 0 THEN 0
  ELSE (IF ts[n][1] = row /\ ts[n][2] = col THEN ts[n][3] ELSE 0)
       + sumAt(ts, n - 1, row, col)

\* lines 106-107: a size x size matrix; setFromTriplets sums the duplicates
setFromTriplets(size, ts) ==
  [rc \in (0..(size - 1)) \X (0..(size - 1)) |-> sumAt(ts, Len(ts), rc[1], rc[2])]

\* lines 110-112: vertexEnergyMatrix += 1e-4 * eye
shifted(matrix) ==
  [rc \in DOMAIN matrix |-> matrix[rc] + (IF rc[1] = rc[2] THEN 1 ELSE 0)]

\* the variables of the isoline extraction while it does not run
extractIdle ==
  /\ stripeValues = <<>>
  /\ stripesIndices = <<>>
  /\ fieldIndices = <<>>
  /\ visited = <<>>
  /\ isolines = <<>>
  /\ fIdx = 0
  /\ iso = EmptyIsoline
  /\ nbOfPieces = 0
  /\ hIdx = 0
  /\ isoPts = <<>>
  /\ prevFace = 0
  /\ curFace = 0
  /\ done = FALSE
  /\ points = <<>>
  /\ edges = <<>>
  /\ i = 0
  /\ start = 0
  /\ isoIdx = 0
  /\ ptIdx = 0

InitEnergy ==
  /\ extractIdle
  /\ crossIdle
  /\ mesh \in EnergyMeshes
  /\ halfedgeCotanWeights \in CotanInputs(mesh)
  /\ branchIndices \in [Faces -> 0..MaxIndex]
  /\ eIdx = 1
  /\ crossesSheet = FALSE
  /\ triplets = <<>>
  /\ vertexEnergyMatrix = <<>>
  /\ pc = "edges"

\* lines 61-103: one edge of the loop
AddEdge ==
  /\ pc = "edges"
  /\ eIdx <= Len(mesh.edges)
  /\ LET he == mesh.edges[eIdx]
         vi == 2 * vertexIndices(vertex(he))
         vj == 2 * vertexIndices(vertex(twin(he)))
     IN \E omegaIJ \in OmegaTurns, sheet \in BOOLEAN :
          LET w   == cotanWeight(he)
              dir == fromAngle(omegaIJ)
              rij == <<w * dir[1], w * dir[2]>>
          IN /\ crossesSheet' = sheet
             /\ triplets' = triplets \o edgeTriplets(vi, vj, w, rij, sheet)
  /\ eIdx' = eIdx + 1
  /\ UNCHANGED <<mesh, pc, extractVars, crossVars, halfedgeCotanWeights, branchIndices,
                 vertexEnergyMatrix>>

\* lines 106-107
Assemble ==
  /\ pc = "edges"
  /\ eIdx > Len(mesh.edges)
  /\ vertexEnergyMatrix' = setFromTriplets(2 * mesh.nVertices, triplets)
  /\ pc' = "assembled"
  /\ UNCHANGED <<mesh, extractVars, crossVars, halfedgeCotanWeights, branchIndices, eIdx,
                 crossesSheet, triplets>>

\* lines 110-114
Shift ==
  /\ pc = "assembled"
  /\ vertexEnergyMatrix' = shifted(vertexEnergyMatrix)
  /\ pc' = "energyDone"
  /\ UNCHANGED <<mesh, extractVars, crossVars, halfedgeCotanWeights, branchIndices, eIdx,
                 crossesSheet, triplets>>

NextEnergy ==
  \/ AddEdge
  \/ Assemble
  \/ Shift

SpecEnergy == InitEnergy /\ [][NextEnergy]_vars

(***************************************************************************)
(* crossesModulo2Pi on its own                                              *)
(***************************************************************************)
\* the values handed to crossesModulo2Pi: the multiples of 2*PI of the
\* periods around 0 and the values 0.1 below and above each
CrossVals ==
  { k * TwoPi + d : k \in (-MaxPeriods)..MaxPeriods, d \in {-100, 0, 100} }

InitCross ==
  /\ extractIdle
  /\ energyIdle
  /\ mesh = TriMesh
  /\ argVal1 \in CrossVals
  /\ argVal2 \in CrossVals
  /\ crossing = <<>>
  /\ pc = "crosses"

\* lines 256-273
Crosses ==
  /\ pc = "crosses"
  /\ crossing' = crossesModulo2Pi(argVal1, argVal2)
  /\ pc' = "crossesDone"
  /\ UNCHANGED <<mesh, extractVars, energyVars, argVal1, argVal2>>

NextCross == Crosses

SpecCross == InitCross /\ [][NextCross]_vars

(***************************************************************************)
(* Properties                                                               *)
(***************************************************************************)
\* extractIsolinesFromStripePattern has returned its list
returned == pc \in {"polylines", "polyPoints", "done"}

\* the run is over: the polylines are returned or the exception is thrown
terminated == pc \in {"done", "error"}

\* number of halfedges of face F with a crossing
crossingCount(F) ==
  Cardinality({k \in 1..3 : halfedgeCrossing(adjacentHalfedges(F)[k]).crosses})

\* the face on the other side of the edge of crossing point pt
farSide(pt) == face(twin(pt[1]))

\* the far side of the edge of pt is a boundary loop or a singular face
endsAtBoundaryOrSingularity(pt) ==
  isBoundaryLoop(farSide(pt)) \/ ~regular(farSide(pt))

\* the edges of two crossing points are edges of one common mesh face
shareFace(p, q) ==
  ({face(p[1]), face(twin(p[1]))} \cap {face(q[1]), face(twin(q[1]))} \cap Faces) # {}

RECURSIVE sumBarycenters(_)
sumBarycenters(isos) ==
  IF isos = <<>> THEN 0
  ELSE Len(Head(isos).barycenters) + sumBarycenters(Tail(isos))

RECURSIVE sumEdges(_)
sumEdges(isos) ==
  IF isos = <<>> THEN 0
  ELSE (IF Head(isos).open THEN Len(Head(isos).barycenters) - 1
                           ELSE Len(Head(isos).barycenters))
       + sumEdges(Tail(isos))

\* C1: every returned isoline is closed or has both end crossing points on an
\* edge whose far side is a boundary loop or a singular face
C1_OpenIsolinesEndAtBoundaryOrSingularity ==
  returned =>
    \A k \in 1..Len(isolines) :
      LET b == isolines[k].barycenters IN
        \/ ~isolines[k].open
        \/ /\ endsAtBoundaryOrSingularity(b[1])
           /\ endsAtBoundaryOrSingularity(b[Len(b)])

\* the seed face has a crossing on all three of its edges
allThreeCross(F) == crossingCount(F) = 3

\* the halfedge loop over the seed face is over
seedFinished == pc = "halfedges" /\ hIdx > 3

\* C2: the fatal error is raised exactly at an unvisited regular seed face
\* with a crossing on all three edges; otherwise the run goes on to return
C2_ThrowsExactlyAtBranchingSeed ==
  /\ [][(pc = "faces" /\ pc' = "halfedges") => (~visited[f] /\ regular(f))]_vars
  /\ [][seedFinished => ((pc' = "error") <=> allThreeCross(f))]_vars
  /\ [][pc' = "error" => (seedFinished /\ regular(f) /\ allThreeCross(f))]_vars
  /\ [](pc = "error" => ~returned /\ ~ENABLED Next)
  /\ [](terminated \/ ENABLED Next)

C2_Witness ==
  pc = "error" /\ mesh.name = "fan" /\ f = 2

\* C3: the polylines hold one point per barycenter, one edge per consecutive
\* pair of an isoline plus a closing edge per closed isoline, and every edge
\* index is the index of a returned point
C3_PolylineCounts ==
  pc = "done" =>
    /\ Len(points) = sumBarycenters(isolines)
    /\ Len(edges) = sumEdges(isolines)
    /\ \A k \in 1..Len(edges) :
         /\ edges[k][1] \in 0..(Len(points) - 1)
         /\ edges[k][2] \in 0..(Len(points) - 1)

C3_Witness ==
  /\ pc = "done"
  /\ \E k \in 1..Len(isolines) :
       ~isolines[k].open /\ Len(isolines[k].barycenters) >= 3

\* the single regular triangle with corner values (0.1, 6.2, 0.1)
scenarioC4 ==
  /\ mesh = TriMesh
  /\ stripeValues = ScenarioValues
  /\ regular(1)

\* C4 as stated: one crossing, on the halfedge from corner 0 to corner 1, at
\* fraction (2*PI - 0.1) / (6.2 - 0.1), and one open isoline of one point
C4_OneCrossingOneIsoline ==
  (scenarioC4 /\ returned) =>
    /\ halfedgeCrossing(1).crosses
    /\ Len(isolines) = 1
    /\ isolines[1].open
    /\ Len(isolines[1].barycenters) = 1
    /\ isolines[1].barycenters[1][1] = 1

\* C4 amended: 6.2 is below 2*PI, so no edge of the triangle has a crossing
\* and the returned list of isolines is empty
C4_NoCrossingNoIsoline ==
  (scenarioC4 /\ returned) =>
    /\ \A k \in 1..3 : ~halfedgeCrossing(k).crosses
    /\ isolines = <<>>
    /\ visited[1]

C4_Witness ==
  scenarioC4 /\ pc = "done" /\ points = <<>>

\* the next step of the run is an iteration of the walk's loop in curFace
searchesCurFace == pc = "walk" /\ walkContinues

\* C7 as stated: no walk runs the crossing search in a face that is already
\* marked visited
C7_NeverSearchesVisitedFace ==
  searchesCurFace => ~visited[curFace]

\* C7 amended: the search marks its face visited, and every step of a walk
\* after the first searches a face that was not marked visited; the first
\* step out of the seed face is not guarded
C7_OnlyFirstStepMayReenter ==
  /\ [][searchesCurFace => visited'[curFace]]_vars
  /\ [](searchesCurFace /\ Len(isoPts) > 1 => ~visited[curFace])

C7_Witness ==
  searchesCurFace /\ Len(isoPts) > 2 /\ ~visited[curFace]

\* C8: consecutive crossing points of a returned isoline lie on edges of one
\* common face, and so do the last and the first point of a closed isoline
C8_IsolineIsChain ==
  returned =>
    \A k \in 1..Len(isolines) :
      LET b == isolines[k].barycenters IN
        /\ \A n \in 1..(Len(b) - 1) : shareFace(b[n], b[n + 1])
        /\ ~isolines[k].open => shareFace(b[Len(b)], b[1])

\* C9: every walk takes at most |F| + 1 steps and the run ends, by the
\* return of the polylines or by the fatal error
C9_Terminates ==
  /\ [](pc = "walk" => Len(isoPts) <= mesh.nFaces + 1)
  /\ <>terminated

C9_Witness ==
  pc = "walk" /\ Len(isoPts) = mesh.nFaces /\ mesh.nFaces = 3

\* C10: a face never has a crossing on exactly one edge, a seed face starts
\* 0, 2 or 3 walks, and a returned isoline has at least two crossing points
C10_NeverExactlyOneCrossing ==
  /\ \A F \in Faces : crossingCount(F) \in {0, 2, 3}
  /\ seedFinished => nbOfPieces \in {0, 2, 3}
  /\ seedFinished /\ nbOfPieces > 0 /\ ~branches => nbOfPieces = 2
  /\ returned => \A k \in 1..Len(isolines) : Len(isolines[k].barycenters) >= 2

C10_Witness ==
  /\ pc = "done"
  /\ Len(isolines) = 2
  /\ \E F \in Faces : crossingCount(F) = 3

\* the energy matrix is assembled
assembled == pc \in {"assembled", "energyDone"}

\* C5: the energy matrix is square of size 2|V| and symmetric, and every
\* triplet lies inside it
C5_EnergyMatrixSymmetric ==
  LET size == 2 * mesh.nVertices IN
    /\ \A k \in 1..Len(triplets) :
         triplets[k][1] \in 0..(size - 1) /\ triplets[k][2] \in 0..(size - 1)
    /\ assembled =>
         /\ DOMAIN vertexEnergyMatrix = (0..(size - 1)) \X (0..(size - 1))
         /\ \A r, c \in 0..(size - 1) :
              vertexEnergyMatrix[<<r, c>>] = vertexEnergyMatrix[<<c, r>>]

\* the shifted matrix of the quad, after an edge that crosses sheets, in which
\* the blocks of the interior edge 3-1 couple the real part of one vertex
\* with the imaginary part of the other
C5_Witness ==
  /\ pc = "energyDone"
  /\ mesh = QuadMesh
  /\ crossesSheet
  /\ vertexEnergyMatrix[<<0, 5>>] # 0
  /\ vertexEnergyMatrix[<<1, 4>>] # 0
  /\ vertexEnergyMatrix[<<0, 0>>] # vertexEnergyMatrix[<<2, 2>>]

\* some integer multiple of 2*PI lies strictly between a and b
multipleStrictlyBetween(a, b) ==
  LET lo == IF a < b THEN a ELSE b
      hi == IF a < b THEN b ELSE a
  IN \E k \in (-(MaxPeriods + 1))..(MaxPeriods + 1) : lo < k * TwoPi /\ k * TwoPi < hi

\* C6: a crossing is reported exactly when a multiple of 2*PI lies strictly
\* between the two values
C6_CrossesIffStrictlyBetween ==
  pc = "crossesDone" => (crossing.crosses <=> multipleStrictlyBetween(argVal1, argVal2))

====
